---- MODULE Spec2Model ----
(***************************************************************************)
(* Model of the voice-call concurrency harness of                          *)
(* testing/voice_test.spec.ts (the second, current variant of the file,    *)
(* lines 105-245) as driven by the Playwright configuration of             *)
(* unnamed/part_000.                                                       *)
(*                                                                         *)
(* The runner is modelled by what the configuration and the hooks ask of   *)
(* it: tests of a fullyParallel file are handed one by one to worker       *)
(* processes; a hook runs once per worker process (beforeAll before the    *)
(* first test the process runs, afterAll when the process is done); a      *)
(* worker process whose test failed is torn down and replaced; a failed    *)
(* test is run again while retries remain.                                 *)
(*                                                                         *)
(* Time is counted in ticks.  Every wait keeps the time elapsed since it   *)
(* began (Date.now() - start).  The wall clock that stamps the speech      *)
(* events of a page never runs backwards; the stamps of two pages are      *)
(* related by nothing but the order in which their events happen, so each  *)
(* event draws a stamp that is not before the last one of its page.        *)
(*                                                                         *)
(* The module also holds the two pieces of the admin panel the harness     *)
(* does not drive: the Save settings form                                  *)
(* (src/lib/components/admin/Settings/Save.svelte) with the IndexedDB      *)
(* database it keeps the export directory in, and the sort and page state  *)
(* of the feedback table (unnamed/part_001).  They have a specification    *)
(* of their own, SpecAdmin.                                                *)
(***************************************************************************)
EXTENDS Integers, Sequences, FiniteSets, TLC

\* ------------------------------------------------------------------ bounds
MaxWorkers   == 2    \* worker processes when `workers` is undefined
MaxArtifacts == 2    \* artifacts the backend writes per session and directory
MaxUtter     == 1    \* utterances the page speaks per session
TimeoutTicks == 1    \* the deadline of a wait, in ticks
LateTicks    == 1    \* how late a setTimeout may fire, in ticks
MaxTick      == 1    \* readings of the wall clock
SecondTicks  == 1    \* the 1000 ms between two waits, in ticks
MaxOld       == 2    \* files an earlier run left in each cache directory
MaxSpeaks    == 2    \* calls of speechSynthesis.speak with one utterance
MaxHandles   == 2    \* directories the user can pick for the export
MaxPage      == 3    \* pages of the feedback table

\* ------------------------------------------------------- program constants
PollTicks == 1       \* setTimeout(r, 25): one polling interval
RecTarget == 2       \* waitForFileCount(transcriptDir, 2, 45000)
THRESHOLD == 500     \* Math.abs(...) < 500
CIRetries == 2       \* retries: process.env.CI ? 2 : 0
CIWorkers == 2       \* workers: process.env.CI ? 2 : undefined

\* logins: two credential pairs, indexed 0 and 1
logins == <<"A", "B">>
Sessions == 0 .. (Len(logins) - 1)

Slots == 1 .. (IF MaxWorkers > CIWorkers THEN MaxWorkers ELSE CIWorkers)

\* the wall clock readings, Date.now(), by tick
ClockAt(k) == CASE k = 0 -> 0
                [] k = 1 -> 500
                [] k = 2 -> 1000
                [] OTHER -> 1200 + 500 * (k - 3)

NoFile == [absent |-> TRUE]
NoErr  == [kind |-> "none"]

\* a file left in testing/data by an earlier run of the harness
StaleLog == <<[event |-> "start", text |-> 1, time |-> 0]>>

\* a file of a cache directory: who wrote it, its number, its extension
artifact(i, n) == <<i, n, "json">>

\* the files an earlier run left in a cache directory, of mixed extensions
OldFiles == {<<0 - 1, k, IF k % 2 = 1 THEN "json" ELSE "wav">> : k \in 1 .. MaxOld}

\* file.endsWith('.json')
endsWithJson(f) == f[3] = "json"

\* files.filter(file => file.endsWith('.json')).length
jsonCount(files) == Cardinality({f \in files : endsWithJson(f)})

VARIABLES
    CI,             \* process.env.CI
    API_TTS,        \* const API_TTS
    nWorkers,       \* number of worker processes the runner uses
    speechDir,      \* .json files in backend/data/cache/audio/speech
    transcriptDir,  \* .json files in backend/data/cache/audio/transcriptions
    produced,       \* per directory and session: files the backend wrote
    testingDir,     \* testing/data: <index>-speech-timing.json, per index
    worker,         \* the worker processes
    tests,          \* the runner's record of each test
    sess,           \* each test body's position and locals
    page,           \* each session's browser page
    cmp,            \* what the 'compare timing' hook did
    hist,           \* history of the run (never read by the program)
    admin           \* the admin panel: Save form, its database, feedback table

vars == <<admin, CI, API_TTS, nWorkers, speechDir, transcriptDir, produced,
          testingDir, worker, tests, sess, page, cmp, hist>>

\* --------------------------------------------------------------- helpers
Max(a, b) == IF a > b THEN a ELSE b
Abs(x) == IF x < 0 THEN 0 - x ELSE x

RECURSIVE CountEvent(_, _)
CountEvent(log, ev) ==
    IF log = <<>> THEN 0
    ELSE (IF Head(log).event = ev THEN 1 ELSE 0) + CountEvent(Tail(log), ev)

retries == IF CI THEN CIRetries ELSE 0

Dir(d) == IF d = "speech" THEN speechDir ELSE transcriptDir

NewSess == [pc |-> "none", elapsed |-> 0, log |-> <<>>, err |-> NoErr, slow |-> FALSE]

NewPage == [script |-> FALSE, installed |-> FALSE, speechLog |-> <<>>, speaking |-> 0, spoken |-> 0,
            listeners |-> 0, speaks |-> 0, played |-> <<>>]

NewWorker == [pc |-> "down", dir |-> "none", test |-> 0, listed |-> {}]

\* the directory handles showDirectoryPicker can return; 0 stands for null
\* and for a missing record
Handles == 1 .. MaxHandles

\* PermissionState, as queryPermission and requestPermission resolve to
PermissionState == {"granted", "prompt", "denied"}

\* the columns of the feedback table whose header calls setSortKey
SortKeys == {"user", "model_id", "rating", "updated_at"}

\* the admin panel before the Save form is mounted, in a browser that has no
\* 'pathStore' database: the dirHandle store holds null, the feedback table
\* is sorted by 'updated_at', newest first, and shows page 1.  db is the
\* 'pathStore' database (absent, there without the 'filepath' object store,
\* or there with it), exportDir the handle of its 'exportDir' record, dbOpen
\* whether the last onMount left its connection open; last, query and
\* request keep the handler that ran last and what the permission calls of
\* the last onMount resolved to (the component reads none of the three).
NewAdmin == [mounted |-> FALSE, db |-> "absent", exportDir |-> 0, dirHandle |-> 0,
             toast |-> "none", dbOpen |-> FALSE,
             last |-> "none", query |-> "none", request |-> "none",
             orderBy |-> "updated_at", direction |-> "desc", page |-> 1]

\* the state every run starts from
Fresh ==
    /\ produced = [d \in {"speech", "transcript"} |-> [i \in Sessions |-> 0]]
    /\ worker = [w \in Slots |-> NewWorker]
    /\ tests = [i \in Sessions |-> [status |-> "pending", attempt |-> 0]]
    /\ sess = [i \in Sessions |-> NewSess]
    /\ page = [i \in Sessions |-> NewPage]
    /\ cmp = [runs |-> 0, kind |-> "none", verdict |-> "none", a |-> 0, b |-> 0, missing |-> 0 - 1]
    /\ hist = [clears |-> 0, writes |-> [i \in Sessions |-> 0],
               said |-> [i \in Sessions |-> "none"]]

\* the worker processes the runner may use at a time: `workers` of the
\* configuration, and never more than there are tests
workersOf(ci) ==
    LET most == IF MaxWorkers < Len(logins) THEN MaxWorkers ELSE Len(logins)
    IN  IF ci THEN {CIWorkers} ELSE 1 .. most

\* what the configuration and the disk leave open at the start of a run
Start(ci, api, files, cache) ==
    /\ CI = ci
    /\ API_TTS = api
    /\ nWorkers \in workersOf(ci)
    /\ testingDir = files
    /\ speechDir = cache
    /\ transcriptDir = cache
    /\ Fresh

\* testing/data at the start of a run: empty, or holding the logs of an
\* earlier run
DataAtStart == {[i \in Sessions |-> NoFile],
                [i \in Sessions |-> [absent |-> FALSE, run |-> "old", log |-> StaleLog]]}

\* the cache directories at the start of a run: empty, or holding the files
\* of an earlier run
CacheAtStart == {{}, OldFiles}

\* a run on a developer's machine (process.env.CI unset), with TTS by the
\* browser or by the API, on a testing/data that is empty or holds the logs
\* of an earlier run, and on cache directories that are empty or not
Init == \E api \in BOOLEAN, files \in DataAtStart, cache \in CacheAtStart :
            Start(FALSE, api, files, cache) /\ admin = NewAdmin

\* the same run on one worker process (workers: 1): the sessions run one
\* after the other
InitSerial == Init /\ nWorkers = 1

\* a run on CI (two workers, two retries) of the file as it is (const
\* API_TTS = false), on an empty testing/data and empty cache directories
InitCI == Start(TRUE, FALSE, [i \in Sessions |-> NoFile], {}) /\ admin = NewAdmin

\* ------------------------------------------------------------ the runner
\* pending tests wait for a worker; fullyParallel makes each test a job
Pending == {i \in Sessions : tests[i].status = "pending"}

\* the worker the dispatcher gives the next job to: a live idle process if
\* there is one, else a new process while fewer than nWorkers are alive
\* (0 when every worker is busy)
freeWorker ==
    LET idle == {w \in 1 .. nWorkers : worker[w].pc = "idle"}
        down == {w \in 1 .. nWorkers : worker[w].pc = "down"}
        least(S) == CHOOSE w \in S : \A v \in S : w <= v
    IN  IF idle # {} THEN least(idle) ELSE IF down # {} THEN least(down) ELSE 0

\* the dispatcher hands test i, the first of the queue, to worker w.  A fresh
\* process first runs the beforeAll hook of the file; a process that ran it
\* already starts the test.
StartTest(i) ==
    /\ sess' = [sess EXCEPT ![i] = [NewSess EXCEPT !.pc = "init"]]
    /\ page' = [page EXCEPT ![i] = NewPage]

Assign(w, i) ==
    /\ w = freeWorker
    /\ tests[i].status = "pending"
    /\ \A j \in Pending : i <= j
    /\ tests' = [tests EXCEPT ![i].status = "running"]
    /\ IF worker[w].pc = "down"
       THEN /\ worker' = [worker EXCEPT ![w] = [pc |-> "list", dir |-> "speech",
                                                test |-> i, listed |-> {}]]
            /\ UNCHANGED <<sess, page>>
       ELSE /\ worker' = [worker EXCEPT ![w] = [pc |-> "run", dir |-> "none",
                                                test |-> i, listed |-> {}]]
            /\ StartTest(i)
    /\ UNCHANGED <<admin, CI, API_TTS, nWorkers, speechDir, transcriptDir, produced,
                   testingDir, cmp, hist>>

\* clearDir, first half: const files = await readdir(dir) (and the mkdir of
\* testing/data, which always succeeds)
clearDirList(w) ==
    /\ worker[w].pc = "list"
    /\ worker' = [worker EXCEPT ![w].pc = "rm", ![w].listed = Dir(worker[w].dir)]
    /\ UNCHANGED <<admin, CI, API_TTS, nWorkers, speechDir, transcriptDir, produced,
                   testingDir, tests, sess, page, cmp, hist>>

\* rm of one file only, for rm of every file
rmFirst(files, listed) ==
    IF listed = {} THEN files
    ELSE files \ {CHOOSE f \in listed : \A g \in listed : f[2] <= g[2]}

\* Promise.all(files.map(file => rm(path.join(dir, file), {force: true})))
rmAll(files, listed) == files \ listed

\* clearDir, second half: rm of every listed file; force: true ignores the
\* files that are gone.  After the second directory the beforeAll hook is
\* over and the test body starts.
clearDirRemove(w) ==
    /\ worker[w].pc = "rm"
    /\ IF worker[w].dir = "speech"
       THEN /\ speechDir' = rmAll(speechDir, worker[w].listed)
            /\ worker' = [worker EXCEPT ![w].pc = "list", ![w].dir = "transcript",
                                        ![w].listed = {}]
            /\ UNCHANGED <<transcriptDir, sess, page, hist>>
       ELSE /\ transcriptDir' = rmAll(transcriptDir, worker[w].listed)
            /\ worker' = [worker EXCEPT ![w].pc = "run", ![w].dir = "none",
                                        ![w].listed = {}]
            /\ StartTest(worker[w].test)
            /\ hist' = [hist EXCEPT !.clears = IF @ < 2 THEN @ + 1 ELSE @]
            /\ UNCHANGED speechDir
    /\ UNCHANGED <<admin, CI, API_TTS, nWorkers, produced, testingDir, tests, cmp>>

\* the test body returned: the test passed (the page fixture is closed)
TestPass(w) ==
    /\ worker[w].pc = "run"
    /\ sess[worker[w].test].pc = "done"
    /\ tests' = [tests EXCEPT ![worker[w].test].status = "passed"]
    /\ sess' = [sess EXCEPT ![worker[w].test] = NewSess]
    /\ page' = [page EXCEPT ![worker[w].test] = NewPage]
    /\ worker' = [worker EXCEPT ![w].pc = "idle"]
    /\ UNCHANGED <<admin, CI, API_TTS, nWorkers, speechDir, transcriptDir, produced,
                   testingDir, cmp, hist>>

\* the test body threw: the test failed; it is queued again while retries
\* remain, and the worker process runs its afterAll hooks and exits
TestFail(w) ==
    /\ worker[w].pc = "run"
    /\ sess[worker[w].test].pc = "failed"
    /\ tests' = [tests EXCEPT ![worker[w].test] =
                    IF @.attempt < retries
                    THEN [status |-> "pending", attempt |-> @.attempt + 1]
                    ELSE [status |-> "failed", attempt |-> @.attempt]]
    /\ sess' = [sess EXCEPT ![worker[w].test] = NewSess]
    /\ page' = [page EXCEPT ![worker[w].test] = NewPage]
    /\ worker' = [worker EXCEPT ![w].pc = "after"]
    /\ UNCHANGED <<admin, CI, API_TTS, nWorkers, speechDir, transcriptDir, produced,
                   testingDir, cmp, hist>>

\* no test is left for an idle worker: it runs its afterAll hooks and exits
WorkerDone(w) ==
    /\ worker[w].pc = "idle"
    /\ Pending = {}
    /\ worker' = [worker EXCEPT ![w].pc = "after"]
    /\ UNCHANGED <<admin, CI, API_TTS, nWorkers, speechDir, transcriptDir, produced,
                   testingDir, tests, sess, page, cmp, hist>>

\* ------------------------------------------------------- the test body
RunningPcs == {"init", "auth", "call", "awaitRec", "awaitTts1", "awaitTts2",
               "ttsCheck", "awaitEvents", "pull", "write"}

\* the call is on: the page listens to the microphone and speaks
InCallPcs == {"awaitRec", "awaitTts1", "awaitTts2", "ttsCheck", "awaitEvents",
              "pull", "write", "done"}

\* the test body is about to read the page's __speechLog, or to write the
\* copy it took of it
LogReadPcs == {"awaitEvents", "pull", "write"}

FileWaitPcs == {"awaitRec", "awaitTts1", "awaitTts2"}

WaitDir(pc) == IF pc = "awaitRec" THEN "transcript" ELSE "speech"
WaitTarget(pc) == CASE pc = "awaitRec" -> RecTarget
                    [] pc = "awaitTts1" -> 1
                    [] OTHER -> 2

Others == <<admin, CI, API_TTS, nWorkers, produced, worker, tests, cmp>>

\* the test body without its addInitScript calls: nothing is registered
addInitScriptSkipped(i) ==
    /\ sess[i].pc = "init"
    /\ sess' = [sess EXCEPT ![i].pc = "auth"]
    /\ UNCHANGED <<speechDir, transcriptDir, testingDir, page, hist>>
    /\ UNCHANGED <<admin, CI, API_TTS, nWorkers, produced, worker, tests, cmp>>

\* page.addInitScript (twice): the script that installs __speechLog and the
\* speak wrapper is registered with the page
addInitScript(i) ==
    /\ sess[i].pc = "init"
    /\ sess' = [sess EXCEPT ![i].pc = "auth"]
    /\ page' = [page EXCEPT ![i].script = TRUE]
    /\ UNCHANGED <<speechDir, transcriptDir, testingDir, hist>>
    /\ UNCHANGED Others

\* page.goto('/auth'), fill email and password, click 'Sign in'.  The
\* navigation evaluates the registered init script in the new document.
Authenticate(i) ==
    /\ sess[i].pc = "auth"
    /\ sess' = [sess EXCEPT ![i].pc = "call"]
    /\ page' = [page EXCEPT ![i].installed = page[i].script, ![i].speechLog = <<>>]
    /\ UNCHANGED <<speechDir, transcriptDir, testingDir, hist>>
    /\ UNCHANGED Others

\* click 'New Chat', click 'Call'
StartCall(i) ==
    /\ sess[i].pc = "call"
    /\ sess' = [sess EXCEPT ![i].pc = "awaitRec", ![i].elapsed = 0]
    /\ UNCHANGED <<speechDir, transcriptDir, testingDir, page, hist>>
    /\ UNCHANGED Others

\* a locator action of the sign-in or of the call start throws
UiFail(i) ==
    /\ sess[i].pc \in {"auth", "call"}
    /\ sess' = [sess EXCEPT ![i].pc = "failed", ![i].err = [kind |-> "ui"]]
    /\ UNCHANGED <<speechDir, transcriptDir, testingDir, page, hist>>
    /\ UNCHANGED Others

\* what follows a returned wait in the test body
AfterWait(pc) == CASE pc = "awaitRec" -> (IF API_TTS THEN "awaitTts1" ELSE "awaitEvents")
                   [] pc = "awaitTts1" -> "awaitTts2"
                   [] OTHER -> "ttsCheck"

\* the test of waitForFileCount on the listed files
countReached(n, target) == n = target

\* the test on the clock with >= for >: the deadline itself already throws
deadlinePassedAtDeadline(elapsed, timeout) == elapsed >= timeout

\* the test of waitForFileCount on the clock
deadlinePassed(elapsed, timeout) == elapsed > timeout

\* the Error waitForFileCount throws
timeoutError(target, dir, timeout, elapsed) ==
    [kind |-> "Timeout", target |-> target, dir |-> dir, ms |-> timeout]

\* the loop without its test on the clock: it returns when the count is the
\* target, and polls on otherwise
waitForFileCountNoDeadline(i) ==
    /\ sess[i].pc \in FileWaitPcs
    /\ countReached(jsonCount(Dir(WaitDir(sess[i].pc))), WaitTarget(sess[i].pc))
    /\ sess' = [sess EXCEPT ![i].pc = AfterWait(sess[i].pc), ![i].elapsed = 0]
    /\ UNCHANGED <<speechDir, transcriptDir, testingDir, page, hist>>
    /\ UNCHANGED <<admin, CI, API_TTS, nWorkers, produced, worker, tests, cmp>>

\* waitForFileCount, one turn of the loop: readdir, filter on '.json', return
\* when the count is the target, throw when the deadline has passed, else
\* sleep (setTimeout(r, 25): the timer fires after the interval, or somewhat
\* later)
waitForFileCount(i) ==
    LET pc == sess[i].pc
        n == jsonCount(Dir(WaitDir(pc)))
    IN  /\ pc \in FileWaitPcs
        /\ \E d \in PollTicks .. (PollTicks + LateTicks) :
             sess' = [sess EXCEPT ![i] =
                IF countReached(n, WaitTarget(pc))
                THEN [@ EXCEPT !.pc = AfterWait(pc), !.elapsed = 0,
                               !.slow = (pc = "awaitTts2" /\ sess[i].elapsed > SecondTicks)]
                ELSE IF deadlinePassed(@.elapsed, TimeoutTicks)
                THEN [@ EXCEPT !.pc = "failed",
                               !.err = timeoutError(WaitTarget(pc), WaitDir(pc),
                                                    TimeoutTicks, sess[i].elapsed)]
                ELSE [@ EXCEPT !.elapsed = @ + d]]
        /\ UNCHANGED <<speechDir, transcriptDir, testingDir, page, hist>>
        /\ UNCHANGED Others

\* the line the API_TTS branch prints on its two times
ttsLine(slow) ==
    IF slow THEN "TTS not concurrent enough" ELSE "Speech to text and TTS concurrent"

\* the check with a throw for the return: a slow second file fails the test
ttsCheckThrows(i) ==
    /\ sess[i].pc = "ttsCheck"
    /\ sess' = [sess EXCEPT ![i].pc = IF sess[i].slow THEN "failed" ELSE "done",
                            ![i].err = IF sess[i].slow THEN [kind |-> "Error"] ELSE NoErr]
    /\ hist' = [hist EXCEPT !.said[i] = ttsLine(sess[i].slow)]
    /\ UNCHANGED <<speechDir, transcriptDir, testingDir, page>>
    /\ UNCHANGED Others

\* API_TTS branch, after the two waits on speechDir: second - first > 1000
\* logs 'TTS not concurrent enough' and returns; else logs and falls out of
\* the branch.  Either way the test body ends here.
ttsCheck(i) ==
    /\ sess[i].pc = "ttsCheck"
    /\ sess' = [sess EXCEPT ![i].pc = "done"]
    /\ hist' = [hist EXCEPT !.said[i] = ttsLine(sess[i].slow)]
    /\ UNCHANGED <<speechDir, transcriptDir, testingDir, page>>
    /\ UNCHANGED Others

\* the wait on the events with a catch that does not rethrow: the body goes
\* on to the write with the partial log it pulled
waitForFunctionSwallow(i) ==
    /\ sess[i].pc = "awaitEvents"
    /\ \E d \in PollTicks .. (PollTicks + LateTicks) :
         sess' = [sess EXCEPT ![i] =
            IF page[i].installed /\ CountEvent(page[i].speechLog, "start") >= 1
            THEN [@ EXCEPT !.pc = "pull", !.elapsed = 0]
            ELSE IF deadlinePassed(@.elapsed, TimeoutTicks)
            THEN [@ EXCEPT !.pc = "write", !.log = page[i].speechLog]
            ELSE [@ EXCEPT !.elapsed = @ + d]]
    /\ UNCHANGED <<speechDir, transcriptDir, testingDir, page, hist>>
    /\ UNCHANGED <<admin, CI, API_TTS, nWorkers, produced, worker, tests, cmp>>

\* the wait on the events with 0 for its argument n: it resolves on the first
\* poll of a page that has the log
waitForFunctionNone(i) ==
    /\ sess[i].pc = "awaitEvents"
    /\ \E d \in PollTicks .. (PollTicks + LateTicks) :
         sess' = [sess EXCEPT ![i] =
            IF page[i].installed /\ CountEvent(page[i].speechLog, "start") >= 0
            THEN [@ EXCEPT !.pc = "pull", !.elapsed = 0]
            ELSE IF deadlinePassed(@.elapsed, TimeoutTicks)
            THEN [@ EXCEPT !.pc = "failed", !.err = [kind |-> "TimeoutError"]]
            ELSE [@ EXCEPT !.elapsed = @ + d]]
    /\ UNCHANGED <<speechDir, transcriptDir, testingDir, page, hist>>
    /\ UNCHANGED <<admin, CI, API_TTS, nWorkers, produced, worker, tests, cmp>>

\* page.waitForFunction(n => count of 'start' in __speechLog >= n, 1,
\* {timeout: 30000}), one poll of the predicate: resolved, timed out (the
\* catch pulls the partial log, prints it and rethrows), or polled again
waitForFunction(i) ==
    /\ sess[i].pc = "awaitEvents"
    /\ \E d \in PollTicks .. (PollTicks + LateTicks) :
         sess' = [sess EXCEPT ![i] =
            IF page[i].installed /\ CountEvent(page[i].speechLog, "start") >= 1
            THEN [@ EXCEPT !.pc = "pull", !.elapsed = 0]
            ELSE IF deadlinePassed(@.elapsed, TimeoutTicks)
            THEN [@ EXCEPT !.pc = "failed", !.err = [kind |-> "TimeoutError"]]
            ELSE [@ EXCEPT !.elapsed = @ + d]]
    /\ UNCHANGED <<speechDir, transcriptDir, testingDir, page, hist>>
    /\ UNCHANGED Others

\* log = await page.evaluate(() => __speechLog): a copy of the page's log
pullLog(i) ==
    /\ sess[i].pc = "pull"
    /\ sess' = [sess EXCEPT ![i].pc = "write", ![i].log = page[i].speechLog]
    /\ UNCHANGED <<speechDir, transcriptDir, testingDir, page, hist>>
    /\ UNCHANGED Others

\* the write as an append to the file that is there
appendFileSync(files, i, log) ==
    [files EXCEPT ![i] = [absent |-> FALSE, run |-> "cur",
                          log |-> (IF files[i] = NoFile THEN <<>> ELSE files[i].log) \o log]]

\* fs.writeFileSync(<index>-speech-timing.json, JSON.stringify(log)): the
\* file of index i is created or truncated, and holds the log
writeFileSync(files, i, log) ==
    [files EXCEPT ![i] = [absent |-> FALSE, run |-> "cur", log |-> log]]

\* the write of the log as the page holds it at the write, for the write of
\* the copy
persistLogLive(i) ==
    /\ sess[i].pc = "write"
    /\ testingDir' = writeFileSync(testingDir, i, page[i].speechLog)
    /\ sess' = [sess EXCEPT ![i].pc = "done", ![i].log = <<>>]
    /\ hist' = [hist EXCEPT !.writes[i] = @ + 1]
    /\ UNCHANGED <<speechDir, transcriptDir, page>>
    /\ UNCHANGED <<admin, CI, API_TTS, nWorkers, produced, worker, tests, cmp>>

\* fs.writeFileSync(testing/data/<index>-speech-timing.json,
\* JSON.stringify(log)); await page.waitForTimeout(3000); the body returns
persistLog(i) ==
    /\ sess[i].pc = "write"
    /\ testingDir' = writeFileSync(testingDir, i, sess[i].log)
    /\ sess' = [sess EXCEPT ![i].pc = "done", ![i].log = <<>>]
    /\ hist' = [hist EXCEPT !.writes[i] = @ + 1]
    /\ UNCHANGED <<speechDir, transcriptDir, page>>
    /\ UNCHANGED Others

\* ------------------------------------------------- the backend and the page
\* the backend transcribes an utterance of session i and writes the
\* transcript file
Transcribe(i) ==
    /\ sess[i].pc \in InCallPcs
    /\ produced["transcript"][i] < MaxArtifacts
    /\ produced' = [produced EXCEPT !["transcript"][i] = @ + 1]
    /\ transcriptDir' = transcriptDir \cup {artifact(i, produced["transcript"][i] + 1)}
    /\ UNCHANGED <<admin, CI, API_TTS, nWorkers, speechDir, testingDir, worker,
                   tests, sess, page, cmp, hist>>

\* with TTS by the API the backend synthesizes an answer for session i and
\* writes the speech file
Synthesize(i) ==
    /\ API_TTS
    /\ sess[i].pc \in InCallPcs
    /\ produced["transcript"][i] >= 1
    /\ produced["speech"][i] < MaxArtifacts
    /\ produced' = [produced EXCEPT !["speech"][i] = @ + 1]
    /\ speechDir' = speechDir \cup {artifact(i, produced["speech"][i] + 1)}
    /\ UNCHANGED <<admin, CI, API_TTS, nWorkers, transcriptDir, testingDir, worker,
                   tests, sess, page, cmp, hist>>

\* the listeners the wrapper added to the utterance push one entry, stamped
\* with Date.now()
speechEntry(ev, txt, t) == [event |-> ev, text |-> txt, time |-> ClockAt(t)]

\* the tick of the last entry of a log
lastTick(log) ==
    IF log = <<>> THEN 0
    ELSE CHOOSE k \in 0 .. MaxTick : ClockAt(k) = log[Len(log)].time

\* an event of an utterance is dispatched to the k listeners the wrapper
\* has added for it: each pushes one entry
RECURSIVE dispatch(_, _, _)
dispatch(log, entry, k) ==
    IF k = 0 THEN log ELSE dispatch(Append(log, entry), entry, k - 1)

\* speechSynthesis.speak(utt) through the wrapper: one more 'start' and one
\* more 'end' listener on utt; through the original speak: none
wrap(listeners, installed) ==
    IF installed THEN listeners + 1 ELSE listeners

\* the speak of the browser, which origSpeak is bound to: the utterance is
\* handed to the synthesizer, once more
origSpeak(played, utt) == Append(played, utt)

\* a wrapper that adds its listeners and does not pass the utterance on
speakWrapperSilent(played, utt) == played

\* the wrapper of the init script, after it has added its listeners:
\* origSpeak(utt)
speakWrapper(played, utt) == origSpeak(played, utt)

\* speechSynthesis.speak(utt) as the page finds it: the wrapper where the
\* init script has run, the speak of the browser elsewhere
speak(played, utt, installed) ==
    IF installed THEN speakWrapper(played, utt) ELSE origSpeak(played, utt)

\* with TTS by the browser the page speaks an answer: speechSynthesis.speak
\* is called with a new utterance and the utterance starts ('start' fires).
\* The events of a page touch nothing but its log, which the polls of
\* waitForFileCount do not read and which nobody reads after the write: they
\* are followed from the end of the recognition wait to the write.
UtteranceStart(i) ==
    /\ ~API_TTS
    /\ sess[i].pc \in LogReadPcs
    /\ produced["transcript"][i] >= 1
    /\ page[i].speaking = 0
    /\ page[i].spoken < MaxUtter
    /\ \E t \in lastTick(page[i].speechLog) .. MaxTick :
            page' = [page EXCEPT ![i].spoken = @ + 1, ![i].speaking = page[i].spoken + 1,
                                 ![i].speaks = 1,
                                 ![i].played = speak(@, page[i].spoken + 1, page[i].installed),
                                 ![i].listeners = wrap(0, page[i].installed),
                                 ![i].speechLog =
                                     dispatch(@, speechEntry("start", page[i].spoken + 1, t),
                                              wrap(0, page[i].installed))]
    /\ UNCHANGED <<admin, CI, API_TTS, nWorkers, speechDir, transcriptDir, produced,
                   testingDir, worker, tests, sess, cmp, hist>>

\* the page calls speechSynthesis.speak again with the utterance it spoke
\* last (the playback of an answer is started over), and the utterance
\* starts again
SpeakAgain(i) ==
    /\ ~API_TTS
    /\ sess[i].pc \in LogReadPcs
    /\ page[i].speaking = 0
    /\ page[i].spoken >= 1
    /\ page[i].speaks < MaxSpeaks
    /\ \E t \in lastTick(page[i].speechLog) .. MaxTick :
            page' = [page EXCEPT ![i].speaking = page[i].spoken,
                                 ![i].speaks = @ + 1,
                                 ![i].played = speak(@, page[i].spoken, page[i].installed),
                                 ![i].listeners = wrap(@, page[i].installed),
                                 ![i].speechLog =
                                     dispatch(@, speechEntry("start", page[i].spoken, t),
                                              wrap(page[i].listeners, page[i].installed))]
    /\ UNCHANGED <<admin, CI, API_TTS, nWorkers, speechDir, transcriptDir, produced,
                   testingDir, worker, tests, sess, cmp, hist>>

\* the utterance is over ('end' fires)
UtteranceEnd(i) ==
    /\ sess[i].pc \in LogReadPcs
    /\ page[i].speaking # 0
    /\ \E t \in lastTick(page[i].speechLog) .. MaxTick :
            page' = [page EXCEPT ![i].speaking = 0,
                                 ![i].speechLog =
                                     dispatch(@, speechEntry("end", page[i].speaking, t),
                                              page[i].listeners)]
    /\ UNCHANGED <<admin, CI, API_TTS, nWorkers, speechDir, transcriptDir, produced,
                   testingDir, worker, tests, sess, cmp, hist>>

\* ------------------------------------------------------- 'compare timing'
\* the time of the last entry for that of entry 0
entryTimeLast(log) == log[Len(log)].time

\* timings[i][0].time
entryTime(log) == log[1].time

\* the comparison with <= for <
verdictOfInclusive(a, b) == IF Abs(a - b) <= THRESHOLD THEN "concurrent" ELSE "not concurrent"

\* Math.abs(a - b) < 500
verdictOf(a, b) == IF Abs(a - b) < THRESHOLD THEN "concurrent" ELSE "not concurrent"

\* the body of the hook on the files of testing/data: readFileSync throws on
\* the first index that has no file; timings[i][0].time throws on an empty
\* log; else one of the two lines is printed
compareTiming(files) ==
    LET absent == {i \in Sessions : files[i] = NoFile}
        first == CHOOSE i \in absent : \A j \in absent : i <= j
    IN  IF absent # {}
        THEN [kind |-> "error", verdict |-> "none", a |-> 0, b |-> 0, missing |-> first]
        ELSE IF files[0].log = <<>> \/ files[1].log = <<>>
        THEN [kind |-> "error", verdict |-> "none", a |-> 0, b |-> 0, missing |-> 0 - 1]
        ELSE [kind |-> "verdict",
              verdict |-> verdictOf(entryTime(files[0].log), entryTime(files[1].log)),
              a |-> entryTime(files[0].log), b |-> entryTime(files[1].log),
              missing |-> 0 - 1]

\* the afterAll hook 'compare timing' of voice_test_serial, run by a worker
\* process that is done; the process exits after it
CompareTiming(w) ==
    /\ worker[w].pc = "after"
    /\ cmp' = [runs |-> IF cmp.runs < 2 THEN cmp.runs + 1 ELSE 2] @@ compareTiming(testingDir)
    /\ worker' = [worker EXCEPT ![w] = NewWorker]
    /\ UNCHANGED <<admin, CI, API_TTS, nWorkers, speechDir, transcriptDir, produced,
                   testingDir, tests, sess, page, hist>>

\* ----------------------------------------------------------- specification
\* the steps of a run with TTS by the browser
NextBrowser ==
    \/ \E w \in Slots, i \in Sessions : Assign(w, i)
    \/ \E w \in Slots : clearDirList(w)
    \/ \E w \in Slots : clearDirRemove(w)
    \/ \E w \in Slots : TestPass(w)
    \/ \E w \in Slots : TestFail(w)
    \/ \E w \in Slots : WorkerDone(w)
    \/ \E w \in Slots : CompareTiming(w)
    \/ \E i \in Sessions : addInitScript(i)
    \/ \E i \in Sessions : Authenticate(i)
    \/ \E i \in Sessions : StartCall(i)
    \/ \E i \in Sessions : UiFail(i)
    \/ \E i \in Sessions : waitForFileCount(i)
    \/ \E i \in Sessions : waitForFunction(i)
    \/ \E i \in Sessions : pullLog(i)
    \/ \E i \in Sessions : persistLog(i)
    \/ \E i \in Sessions : Transcribe(i)
    \/ \E i \in Sessions : UtteranceStart(i)
    \/ \E i \in Sessions : UtteranceEnd(i)

\* the steps of a run, with TTS by the browser or by the API
Next ==
    \/ NextBrowser
    \/ \E i \in Sessions : Synthesize(i)
    \/ \E i \in Sessions : ttsCheck(i)

Spec == Init /\ [][Next]_vars

SpecSerial == InitSerial /\ [][Next]_vars

SpecCI == InitCI /\ [][NextBrowser]_vars

\* the steps of the test body of session i that the event loop of its worker
\* process runs when their await is settled
Body(i) ==
    \/ addInitScript(i)
    \/ Authenticate(i)
    \/ StartCall(i)
    \/ waitForFileCount(i)
    \/ ttsCheck(i)
    \/ waitForFunction(i)
    \/ pullLog(i)
    \/ persistLog(i)

\* the run on one worker process in which no test body is starved: a timer
\* that is due fires, and a settled await is resumed
SpecFair == InitSerial /\ [][Next]_vars /\ \A i \in Sessions : WF_vars(Body(i))

\* the run on one worker process with a page that starts the playback of an
\* answer over: it calls speechSynthesis.speak again with the same utterance
NextReplay == Next \/ \E i \in Sessions : SpeakAgain(i)

SpecReplay == InitSerial /\ [][NextReplay]_vars

\* ---------------------------------------------------------- the admin panel
\* the catch of onMount: console.error, toast.error, dirHandle.set(null)
catchMount(a) ==
    [a EXCEPT !.toast = "Error loading export location. Please set one.",
              !.dirHandle = 0]

\* clearExportHandle(db): the component declares no such name and imports
\* none (it imports onMount, getContext, toast and dirHandle, and declares
\* setFilePath and saveExportHandle), so the call throws a ReferenceError
\* and the record is as it was
clearExportHandle(exportDir) == [threw |-> TRUE, exportDir |-> exportDir]

\* the two branches of onMount for a permission that is not granted:
\* await clearExportHandle(db); dirHandle.set(null); toast.warning(...).
\* The statements after a call that throws are not run, db.close() neither.
permissionRefused(a) ==
    LET cleared == clearExportHandle(a.exportDir)
    IN  IF cleared.threw
        THEN catchMount([a EXCEPT !.dbOpen = TRUE])
        ELSE [a EXCEPT !.exportDir = cleared.exportDir, !.dirHandle = 0,
                       !.toast = "Permission denied for previous location. Please set a new one.",
                       !.dbOpen = FALSE]

\* the body of onMount on a database that has the object store: get
\* 'exportDir', and with a stored handle queryPermission, and on 'prompt'
\* requestPermission; then db.close()
checkStoredHandle(a, query, request) ==
    IF a.exportDir = 0
    THEN [a EXCEPT !.dbOpen = FALSE]
    ELSE IF query = "granted"
    THEN [a EXCEPT !.query = query, !.dirHandle = a.exportDir, !.dbOpen = FALSE]
    ELSE IF query = "prompt"
    THEN IF request = "granted"
         THEN [a EXCEPT !.query = query, !.request = request,
                        !.dirHandle = a.exportDir, !.dbOpen = FALSE]
         ELSE permissionRefused([a EXCEPT !.query = query, !.request = request])
    ELSE permissionRefused([a EXCEPT !.query = query])

\* indexedDB.open(dbName, 2) with the onupgradeneeded of onMount: a database
\* that is not there is created with the object store; one that is there
\* at version 2 is opened as it is
openWithUpgrade(db) == IF db = "absent" THEN "ready" ELSE db

\* indexedDB.open(dbName, 2) of saveExportHandle, which has no
\* onupgradeneeded: a database that is not there is created without store
openPlain(db) == IF db = "absent" THEN "noStore" ELSE db

\* onMount, whole: the open fails (the catch), or the database has no
\* object store (db.transaction throws, the catch), or the stored handle is
\* looked up and checked
mountForm(a, open, query, request) ==
    LET m == [a EXCEPT !.mounted = TRUE, !.last = "onMount",
                       !.query = "none", !.request = "none"]
    IN  IF open = "error"
        THEN catchMount([m EXCEPT !.dbOpen = FALSE])
        ELSE IF openWithUpgrade(a.db) = "noStore"
        THEN catchMount([m EXCEPT !.dbOpen = TRUE])
        ELSE checkStoredHandle([m EXCEPT !.db = "ready"], query, request)

\* the Save form is mounted (the admin opens the settings tab, again or for
\* the first time) and Svelte runs onMount
onMount ==
    /\ \E open \in {"success", "error"}, query \in PermissionState, request \in PermissionState :
          admin' = mountForm(admin, open, query, request)
    /\ UNCHANGED <<CI, API_TTS, nWorkers, speechDir, transcriptDir, produced,
                   testingDir, worker, tests, sess, page, cmp, hist>>

\* saveExportHandle(handle): open, store.put({id: 'exportDir', handle}),
\* close; on a database without the object store db.transaction throws and
\* nothing is put (the caller does not await the promise)
saveExportHandle(a, handle) ==
    IF openPlain(a.db) = "ready"
    THEN [a EXCEPT !.exportDir = handle]
    ELSE [a EXCEPT !.db = openPlain(a.db)]

\* the click on 'Set export location': showDirectoryPicker resolves to a
\* handle (dirHandle.set, toast.success, saveExportHandle), or the user
\* closes the picker (AbortError: nothing), or it throws something else
\* (toast.error)
setFilePath ==
    /\ admin.mounted
    /\ \E picker \in {"handle", "AbortError", "SecurityError"}, handle \in Handles :
          admin' =
            LET a == [admin EXCEPT !.last = "setFilePath"]
            IN  IF picker = "handle"
                THEN saveExportHandle([a EXCEPT !.dirHandle = handle, !.toast = "File path set"],
                                      handle)
                ELSE IF picker # "AbortError"
                THEN [a EXCEPT !.toast = "Failed to set file path"]
                ELSE a
    /\ UNCHANGED <<CI, API_TTS, nWorkers, speechDir, transcriptDir, produced,
                   testingDir, worker, tests, sess, page, cmp, hist>>

\* the direction a column is sorted in when it becomes the sort key
firstDirection(key) == IF key = "user" \/ key = "model_id" THEN "asc" ELSE "desc"

\* setSortKey without its last statement: the page is left where it is
sortKeyKeepsPage(a, key) ==
    IF a.orderBy = key
    THEN [a EXCEPT !.direction = IF a.direction = "asc" THEN "desc" ELSE "asc"]
    ELSE [a EXCEPT !.orderBy = key, !.direction = firstDirection(key)]

\* setSortKey(key) of the feedback table
sortKey(a, key) ==
    [(IF a.orderBy = key
      THEN [a EXCEPT !.direction = IF a.direction = "asc" THEN "desc" ELSE "asc"]
      ELSE [a EXCEPT !.orderBy = key, !.direction = firstDirection(key)])
     EXCEPT !.page = 1]

\* a click on a column header of the feedback table
setSortKey ==
    /\ \E key \in SortKeys : admin' = [sortKey(admin, key) EXCEPT !.last = "setSortKey"]
    /\ UNCHANGED <<CI, API_TTS, nWorkers, speechDir, transcriptDir, produced,
                   testingDir, worker, tests, sess, page, cmp, hist>>

\* <Pagination bind:page>: the admin goes to another page of the table
Pagination ==
    /\ \E p \in 1 .. MaxPage : admin' = [admin EXCEPT !.page = p, !.last = "Pagination"]
    /\ UNCHANGED <<CI, API_TTS, nWorkers, speechDir, transcriptDir, produced,
                   testingDir, worker, tests, sess, page, cmp, hist>>

\* the admin panel in a browser that has kept the database of an earlier
\* visit, with or without a stored export directory
AdminAtStart ==
    {NewAdmin} \cup {[NewAdmin EXCEPT !.db = "ready", !.exportDir = h] : h \in {0} \cup Handles}

InitAdmin ==
    /\ Start(FALSE, FALSE, [i \in Sessions |-> NoFile], {})
    /\ nWorkers = 1
    /\ admin \in AdminAtStart

NextAdmin ==
    \/ onMount
    \/ setFilePath
    \/ setSortKey
    \/ Pagination

\* the admin panel on its own: no harness run is under way
SpecAdmin == InitAdmin /\ [][NextAdmin]_vars

TypeOK ==
    /\ nWorkers \in Slots
    /\ \A i \in Sessions : sess[i].pc \in RunningPcs \cup {"none", "done", "failed"}
    /\ cmp.kind \in {"none", "verdict", "error"}

\* ------------------------------------------------------------- properties
\* a step of the 'compare timing' hook
CompareStep == \E w \in Slots : worker[w].pc = "after" /\ worker'[w].pc = "down"

\* session i has written its timing log in this run
Persisted(i) == testingDir[i] # NoFile /\ testingDir[i].run = "cur"

\* a turn of the loop of waitForFileCount in session i
PollStep(i) == sess[i].pc \in FileWaitPcs /\ sess'[i] # sess[i]

\* the files the poll of session i lists
Listed(i) == jsonCount(Dir(WaitDir(sess[i].pc)))

\* the time of the first 'start' entry of a log that has one
RECURSIVE FirstStartTime(_)
FirstStartTime(log) ==
    IF Head(log).event = "start" THEN Head(log).time ELSE FirstStartTime(Tail(log))

\* C1: when the comparator starts reading the timing logs, no session is
\* unfinished: every session has persisted its log for this run.
C1_ComparatorAfterBarrier ==
    [][CompareStep => \A i \in Sessions : tests[i].status = "passed" /\ Persisted(i)]_vars

\* C2: the shared directories are cleared exactly once, and no clearDir runs
\* while a session is in progress.
C2_ClearedOnceBeforeSessions ==
    /\ hist.clears <= 1
    /\ \A w \in Slots : worker[w].pc \in {"list", "rm"} =>
          \A i \in Sessions : sess[i].pc = "none"

\* C3: a poll of waitForFileCount that lists at least target files returns.
C3_ReturnsAtOrAboveTarget ==
    [][\A i \in Sessions :
          (PollStep(i) /\ Listed(i) >= WaitTarget(sess[i].pc))
             => sess'[i].pc = AfterWait(sess[i].pc)]_vars

\* C4: waitForFileCount returns only from a poll that lists the target; a
\* poll below the target past the deadline throws; and a throw comes after
\* more than the timeout has elapsed and at most one polling interval (with
\* the lateness of its timer) after the deadline.
C4_TimeoutOnlyAfterDeadline ==
    [][\A i \in Sessions : PollStep(i) =>
          /\ (sess'[i].pc = AfterWait(sess[i].pc) => Listed(i) >= WaitTarget(sess[i].pc))
          /\ (Listed(i) < WaitTarget(sess[i].pc) /\ sess[i].elapsed > TimeoutTicks
                 => sess'[i].pc = "failed" /\ sess'[i].err.kind = "Timeout")
          /\ (sess'[i].pc = "failed" =>
                 /\ sess[i].elapsed > TimeoutTicks
                 /\ sess[i].elapsed <= TimeoutTicks + PollTicks + LateTicks
                 /\ Listed(i) # WaitTarget(sess[i].pc))]_vars

\* a wait on files has timed out below its target
C4_Witness ==
    \E i \in Sessions :
        /\ sess[i].pc = "failed"
        /\ sess[i].err.kind = "Timeout"
        /\ jsonCount(Dir(sess[i].err.dir)) < sess[i].err.target
        /\ sess[i].elapsed = TimeoutTicks + PollTicks + LateTicks

\* C5: the timeout error carries the directory, the target and the time
\* that had elapsed when the wait failed.
C5_ErrorCarriesElapsed ==
    \A i \in Sessions :
        (sess[i].pc = "failed" /\ sess[i].err.kind = "Timeout") =>
            /\ sess[i].err.dir \in {"speech", "transcript"}
            /\ sess[i].err.target \in {1, 2}
            /\ sess[i].err.ms = sess[i].elapsed

\* C6: when a session has failed without persisting its log in this run,
\* the comparator ends in an error that names a session whose log is
\* missing, and prints no verdict.
C6_MissingLogAborts ==
    [][(CompareStep /\ \E i \in Sessions : tests[i].status = "failed" /\ ~Persisted(i))
          => /\ cmp'.kind = "error"
             /\ cmp'.verdict = "none"
             /\ cmp'.missing \in {i \in Sessions : ~Persisted(i)}]_vars

\* C7: the verdict on the first-start times a and b of the two logs is
\* 'concurrent' exactly when |a - b| < 500.
C7_VerdictByThreshold ==
    /\ verdictOf(1000, 1200) = "concurrent"
    /\ verdictOf(0, 1000) = "not concurrent"
    /\ verdictOf(0, 500) = "not concurrent"
    /\ [][(CompareStep /\ cmp'.kind = "verdict") =>
            LET a == FirstStartTime(testingDir[0].log)
                b == FirstStartTime(testingDir[1].log)
            IN  /\ (Abs(a - b) < 500 => cmp'.verdict = "concurrent")
                /\ (Abs(a - b) >= 500 => cmp'.verdict = "not concurrent")]_vars

\* the comparator has printed 'not concurrent' for two times 500 apart
C7_Witness ==
    /\ cmp.kind = "verdict"
    /\ cmp.verdict = "not concurrent"
    /\ Abs(cmp.a - cmp.b) = 500

\* C8: the time the comparator takes from a log is that of the log's first
\* 'start' entry, and the two times it compares are the two earliest first
\* starts of all the logs.
C8_ComparesFirstStarts ==
    [][(CompareStep /\ cmp'.kind = "verdict") =>
          LET start == [i \in Sessions |-> FirstStartTime(testingDir[i].log)]
          IN  /\ cmp'.a = start[0]
              /\ cmp'.b = start[1]
              /\ \A i \in Sessions \ {0, 1} : start[i] >= Max(cmp'.a, cmp'.b)]_vars

\* the comparator has compared a log of this run that goes on after its
\* first start
C8_Witness ==
    /\ cmp.kind = "verdict"
    /\ \E i \in Sessions :
          /\ Persisted(i)
          /\ Len(testingDir[i].log) > 1
          /\ testingDir[i].log[Len(testingDir[i].log)].time # testingDir[i].log[1].time
          /\ cmp.a = testingDir[0].log[1].time
          /\ cmp.b = testingDir[1].log[1].time

\* C9: a session that is done has handed its log to the aggregator exactly
\* once, on either playback branch.
C9_DonePersistedOnce ==
    \A i \in Sessions : sess[i].pc = "done" => hist.writes[i] = 1

\* the entries of a log with a given event and utterance text
RECURSIVE CountOf(_, _, _)
CountOf(log, ev, txt) ==
    IF log = <<>> THEN 0
    ELSE (IF Head(log).event = ev /\ Head(log).text = txt THEN 1 ELSE 0)
         + CountOf(Tail(log), ev, txt)

\* C11: with the wrapper installed, an utterance the page has spoken has
\* exactly one 'start' entry in __speechLog, and exactly one 'end' entry once
\* it is over, however often speak was called with it.
C11_OneStartOneEndPerUtterance ==
    \A i \in Sessions : \A u \in 1 .. MaxUtter :
        (page[i].installed /\ page[i].spoken >= u) =>
            /\ CountOf(page[i].speechLog, "start", u) = 1
            /\ CountOf(page[i].speechLog, "end", u) <= 1
            /\ (page[i].speaking # u => CountOf(page[i].speechLog, "end", u) = 1)

C13_NoAutomaticRetry ==
    [][\A i \in Sessions :
          /\ tests'[i].attempt = 0
          /\ sess[i].pc = "failed" => tests'[i].status \in {"running", "failed"}
          /\ tests[i].status = "failed" => tests'[i].status = "failed"]_vars

\* the write of the timing log of session i
PersistStep(i) == sess[i].pc = "write" /\ sess'[i].pc = "done"

\* C14: the write of session i leaves in the file of index i exactly the log
\* the session took from its page, whatever the file held before, and leaves
\* the file of every other index as it was.
C14_PersistOverwrites ==
    [][\A i \in Sessions : PersistStep(i) =>
          /\ testingDir'[i] # NoFile
          /\ testingDir'[i].log = sess[i].log
          /\ \A j \in Sessions \ {i} : testingDir'[j] = testingDir[j]]_vars

\* session 0 has written its log over the file of an earlier run, and the
\* file of session 1 is still the one of the earlier run
C14_Witness ==
    /\ Persisted(0)
    /\ testingDir[0].log # <<>>
    /\ testingDir[0].log[1].time # StaleLog[1].time
    /\ testingDir[1] # NoFile
    /\ testingDir[1].run = "old"
    /\ testingDir[1].log = StaleLog

\* C15: a session that waits for recognition artifacts, for playback
\* artifacts or for playback events ends, done or failed, whatever the
\* backend and the page produce.
C15_WaitsEnd ==
    \A i \in Sessions :
        (sess[i].pc \in FileWaitPcs \cup {"awaitEvents"}) ~> (sess[i].pc \in {"done", "failed"})

\* a session has failed on the deadline of its recognition wait with no
\* artifact in the directory
C15_Witness ==
    \E i \in Sessions :
        /\ sess[i].pc = "failed"
        /\ sess[i].err.kind = "Timeout"
        /\ sess[i].err.dir = "transcript"
        /\ jsonCount(transcriptDir) = 0

\* a poll of the wait on the playback events in session i
EventPollStep(i) == sess[i].pc = "awaitEvents" /\ sess'[i] # sess[i]

\* C16: a test body that throws writes nothing: the step that fails a
\* session leaves testing/data as it is, a poll of the event wait past its
\* deadline fails the session (the catch rethrows), and a failed session has
\* written no timing log in this run.
C16_FailedWritesNoLog ==
    /\ [](\A i \in Sessions :
            (sess[i].pc = "failed" \/ tests[i].status = "failed") =>
                hist.writes[i] = 0 /\ ~Persisted(i))
    /\ [][\A i \in Sessions :
            /\ (sess[i].pc # "failed" /\ sess'[i].pc = "failed") => testingDir' = testingDir
            /\ (EventPollStep(i) /\ sess[i].elapsed > TimeoutTicks
                  /\ CountEvent(page[i].speechLog, "start") = 0)
                 => sess'[i].pc = "failed"]_vars

\* a session has failed on the deadline of the wait for playback events, and
\* testing/data holds no log of it
C16_Witness ==
    \E i \in Sessions :
        /\ sess[i].pc = "failed"
        /\ sess[i].err.kind = "TimeoutError"
        /\ testingDir[i] = NoFile

\* the rm of clearDir in worker process w, which ends the clearDir
ClearStep(w) == worker[w].pc = "rm" /\ worker'[w].pc # "rm"

\* C17: when clearDir completes on a directory, no file it listed is left,
\* and if the directory held the listed files only, of whatever extensions,
\* the count of its '.json' files is 0.
C17_ClearedCountsZero ==
    [][\A w \in Slots : ClearStep(w) =>
          LET after == IF worker[w].dir = "speech" THEN speechDir' ELSE transcriptDir'
          IN  /\ after \cap worker[w].listed = {}
              /\ Dir(worker[w].dir) \subseteq worker[w].listed => jsonCount(after) = 0]_vars

\* clearDir(speechDir) has completed on a directory that held the files of
\* an earlier run, which transcriptDir still holds
C17_Witness ==
    \E w \in Slots :
        /\ worker[w].pc = "list"
        /\ worker[w].dir = "transcript"
        /\ transcriptDir = OldFiles
        /\ \E f \in OldFiles : ~endsWithJson(f)
        /\ \E f \in OldFiles : endsWithJson(f)
        /\ jsonCount(speechDir) = 0

\* the state of the session, by the position of its test body: 1 Init,
\* 2 Authenticate, 3 StartCall, 4 AwaitRecognitionArtifacts, 5 the playback
\* wait, 6 PersistLog, 7 Done
Stage(pc) == CASE pc = "none" -> 0
               [] pc = "init" -> 1
               [] pc = "auth" -> 2
               [] pc = "call" -> 3
               [] pc = "awaitRec" -> 4
               [] pc \in {"awaitTts1", "awaitTts2", "ttsCheck", "awaitEvents", "pull"} -> 5
               [] pc = "write" -> 6
               [] pc = "done" -> 7
               [] OTHER -> 8

\* C18: a session that does not fail goes through its states in order, one
\* by one: every step of its test body stays in the state or enters the next
\* one, so Done is entered from PersistLog only.
C18_StatesInOrder ==
    [][\A i \in Sessions :
          (sess'[i].pc # sess[i].pc /\ sess'[i].pc \notin {"failed", "none"}) =>
              Stage(sess'[i].pc) \in {Stage(sess[i].pc), Stage(sess[i].pc) + 1}]_vars

\* the recognition artifacts in transcriptDir that the backend wrote for
\* session i
OwnTranscripts(i) == Cardinality({f \in transcriptDir : f[1] = i /\ endsWithJson(f)})

\* C19: the recognition wait of a session returns only when transcriptDir
\* holds two artifacts of that session, and does not time out when it does.
C19_OwnArtifactsOnly ==
    [][\A i \in Sessions : (PollStep(i) /\ sess[i].pc = "awaitRec") =>
          /\ sess'[i].pc = AfterWait("awaitRec") => OwnTranscripts(i) >= RecTarget
          /\ sess'[i].pc = "failed" => OwnTranscripts(i) < RecTarget]_vars

\* C20: once every session has persisted its log, a run of the comparator
\* prints a verdict, and it is the one verdict of the run: none was printed
\* before and the comparator has not run before.
C20_OneVerdictAfterBarrier ==
    [][(CompareStep /\ \A i \in Sessions : Persisted(i)) =>
          /\ cmp'.kind = "verdict"
          /\ cmp.kind # "verdict"
          /\ cmp.runs = 0]_vars

\* the copy of the page's log by page.evaluate in session i
PullStep(i) == sess[i].pc = "pull" /\ sess'[i].pc = "write"

\* C21: the log a session writes is the copy it took of the page's log: the
\* copy is the page's log at the time it is taken, no event of the page
\* changes it after, and the file holds the copy, also when the page's log
\* has grown since.
C21_PersistsSnapshot ==
    [][\A i \in Sessions :
          /\ PullStep(i) => sess'[i].log = page[i].speechLog
          /\ (sess[i].pc = "write" /\ sess'[i].pc = "write") => sess'[i].log = sess[i].log
          /\ PersistStep(i) => (testingDir'[i] # NoFile /\ testingDir'[i].log = sess[i].log)]_vars

\* a session has written its log, and the log of its page holds an entry
\* more than the file
C21_Witness ==
    \E i \in Sessions :
        /\ sess[i].pc = "done"
        /\ Persisted(i)
        /\ Len(page[i].speechLog) > Len(testingDir[i].log)

\* the page of session i calls speechSynthesis.speak
SpeakStep(i) ==
    \/ page'[i].spoken > page[i].spoken
    \/ page'[i].speaks > page[i].speaks

\* C22: a call of speechSynthesis.speak on a page that has the wrapper hands
\* the utterance of the call to the speak of the browser, once; the listeners
\* the wrapper adds and the events they log hand it nothing.
C22_WrapperPlaysOnce ==
    [][\A i \in Sessions :
          /\ (SpeakStep(i) /\ page[i].installed)
                => page'[i].played = Append(page[i].played, page'[i].speaking)
          /\ (~SpeakStep(i) /\ page'[i] # NewPage)
                => page'[i].played = page[i].played]_vars

\* a page with the wrapper has called speak with its first utterance: the
\* speak of the browser has received it once, and its 'start' is logged
C22_Witness ==
    \E i \in Sessions :
        /\ page[i].installed
        /\ page[i].speaks = 1
        /\ page[i].played = <<1>>
        /\ CountEvent(page[i].speechLog, "start") = 1

\* C23: what the harness concludes is printed and fails nothing: on logs
\* that hold an entry each the comparator prints one of its two lines and
\* changes the result of no test, and a test body that finds the second
\* speech file late prints its line, returns, and its test passes.
C23_ConclusionReportOnly ==
    /\ [](\A i \in Sessions :
            hist.said[i] = "TTS not concurrent enough" => tests[i].status # "failed")
    /\ [][/\ (CompareStep /\ \A i \in Sessions :
                    testingDir[i] # NoFile /\ testingDir[i].log # <<>>)
                => (cmp'.kind = "verdict" /\ tests' = tests)
          /\ \A i \in Sessions :
                /\ (sess[i].pc = "ttsCheck" /\ sess'[i].pc # "ttsCheck")
                      => sess'[i].pc = "done"
                /\ (sess[i].pc = "done" /\ tests'[i] # tests[i])
                      => tests'[i].status = "passed"]_vars

\* a test that printed 'TTS not concurrent enough' has passed, and the
\* comparator has printed its line
C23_Witness ==
    /\ cmp.kind = "verdict"
    /\ \E i \in Sessions :
          /\ hist.said[i] = "TTS not concurrent enough"
          /\ tests[i].status = "passed"

\* C24: a log written in this run holds at least one 'start' entry, from the
\* write on, and the comparator never finds a log of this run empty: when it
\* runs, every log of this run has an entry 0, and its error, if it has one,
\* is that of a missing file.
C24_PersistedLogHasStart ==
    /\ [](\A i \in Sessions : Persisted(i) => CountEvent(testingDir[i].log, "start") >= 1)
    /\ [][CompareStep =>
            /\ \A i \in Sessions : Persisted(i) => Len(testingDir[i].log) >= 1
            /\ (cmp'.kind = "error" => cmp'.missing \in Sessions)]_vars

\* the comparator has printed its line on two logs of this run, one of which
\* holds its 'start' entry and nothing else
C24_Witness ==
    /\ cmp.kind = "verdict"
    /\ \A i \in Sessions : Persisted(i)
    /\ \E i \in Sessions : Len(testingDir[i].log) = 1 /\ testingDir[i].log[1].event = "start"

\* the last onMount found a stored handle and the permission to read and
\* write it was not granted
MountRefused ==
    /\ admin.last = "onMount"
    /\ \/ admin.query = "denied"
       \/ admin.query = "prompt" /\ admin.request # "granted"

\* the last onMount found a stored handle and the permission was granted
MountGranted ==
    /\ admin.last = "onMount"
    /\ \/ admin.query = "granted"
       \/ admin.query = "prompt" /\ admin.request = "granted"

\* C25: after an onMount that found a stored handle without the permission,
\* the database holds no 'exportDir' record and dirHandle is null; after any
\* onMount, dirHandle holds a handle only if it is the stored one and the
\* permission was granted.
C25_RefusedHandleCleared ==
    /\ MountRefused => (admin.exportDir = 0 /\ admin.dirHandle = 0)
    /\ (admin.last = "onMount" /\ admin.dirHandle # 0)
          => (MountGranted /\ admin.dirHandle = admin.exportDir)

\* a call of setSortKey: the steps that change the sort key or the direction
SortStep == admin'.orderBy # admin.orderBy \/ admin'.direction # admin.direction

\* C26: a call of setSortKey with the current key turns the direction over
\* and keeps the key; a call with another key makes it the key, ascending for
\* 'user' and 'model_id' and descending for the others; after every call the
\* table shows page 1, whatever page it showed before.
C26_SortKeyResetsPage ==
    /\ [](admin.last = "setSortKey" => admin.page = 1)
    /\ [][/\ admin'.last = "setSortKey" => SortStep
          /\ SortStep =>
               /\ admin'.last = "setSortKey"
               /\ admin'.page = 1
               /\ admin'.orderBy \in SortKeys
               /\ admin'.orderBy = admin.orderBy =>
                     {admin.direction, admin'.direction} = {"asc", "desc"}
               /\ admin'.orderBy # admin.orderBy =>
                     admin'.direction = (IF admin'.orderBy \in {"user", "model_id"}
                                         THEN "asc" ELSE "desc")]_vars

\* the table is sorted by 'user', descending, on page 1: setSortKey was
\* called with 'user' when 'user' was the key already
C26_Witness ==
    /\ admin.last = "setSortKey"
    /\ admin.orderBy = "user"
    /\ admin.direction = "desc"
    /\ admin.page = 1

====
